---- MODULE Spec2Model ----
\* Desktop-shell controller (src/src/main.ts): single-instance coordination,
\* window lifecycle with minimise-to-tray, tray menu, IPC command router,
\* relaunch protocol and navigation policy, as a state machine.
\*
\* Several specifications share the module:
\*   Spec      the lifecycle machine (window, tray, IPC, relaunch, instances)
\*   SpecLive  Spec with the fairness of the host's event delivery
\*   SpecNav   the navigation policy (will-navigate, window-open handler)
\*   SpecSet   the "set" channel, with the payload of each message recorded
\*   SpecAuto  the auto-start channels and their awaited calls
EXTENDS Integers, Sequences, FiniteSets, TLC

\* ---------------------------------------------------------------- bounds
MaxCreates == 2     \* createWindow calls modelled per process
MaxEvents == 2      \* host events pending delivery to the main thread
MaxRpc == 1         \* presence-integration calls recorded
MaxRequests == 2    \* new-window requests recorded
MaxSetRpc == 2      \* presence-integration calls recorded, "set" channel alone
MaxPending == 2     \* autoLaunch calls awaited at one time

VARIABLES
    platform,       \* process.platform
    pc,             \* position of the first process in its start-up code
    windows,        \* every BrowserWindow constructed, in creation order
    mainWindow,     \* the module variable mainWindow: 0 = undefined, else an index
    trays,          \* every Tray constructed: the toggle label of its menu
    config,         \* store.get("config")
    shouldQuit,     \* app.shouldQuit
    shouldRelaunch, \* app.shouldRelaunch
    evq,            \* window / app events emitted by the host, not yet handled
    rpcLog,         \* connectRPC / dropRPC calls, in order
    relaunches,     \* options passed to App.relaunch, in order
    appCalls,       \* App.relaunch / App.quit calls of the teardown handler
    p2,             \* a process launched later: "absent" while not running
    p2Windows,      \* windows created by that process
    last,           \* name of the handler that ran last
    buildURL,       \* the string getBuildURL() returns
    location,       \* URL the window content is at
    lastNav,        \* last will-navigate: target and whether it was cancelled
    requests,       \* new-window requests received, in order
    immediates,     \* setImmediate callbacks pending: the URL each will open
    opened,         \* shell.openExternal calls, in order
    childWindows,   \* windows the host created for new-window requests
    openAction,     \* what the window-open handler returned last
    sent,           \* payload of the last "set" message, as <<arg>>
    autoStart,      \* whether the OS has the app registered to start at login
    pendingAuto,    \* autoLaunch calls awaited and not yet settled
    pushed          \* the last "autoStart" message sent to the content, as <<v>>

lifeVars == <<platform, pc, windows, mainWindow, trays, config, shouldQuit,
              shouldRelaunch, evq, rpcLog, relaunches, appCalls, p2,
              p2Windows, last>>
navVars == <<buildURL, location, lastNav, requests, immediates, opened,
             childWindows, openAction>>
ipcVars == <<sent, autoStart, pendingAuto, pushed>>
vars == <<platform, pc, windows, mainWindow, trays, config, shouldQuit,
          shouldRelaunch, evq, rpcLog, relaunches, appCalls, p2, p2Windows,
          last, buildURL, location, lastNav, requests, immediates, opened,
          childWindows, openAction, sent, autoStart, pendingAuto, pushed>>

\* ------------------------------------------------------- strings as text
\* Text the code inspects character by character is a sequence of characters.
Str_http == <<"h", "t", "t", "p">>
Str_https == <<"h", "t", "t", "p", "s">>
Str_ftp == <<"f", "t", "p">>
Str_ws == <<"w", "s">>
Str_wss == <<"w", "s", "s">>
Str_file == <<"f", "i", "l", "e">>
Str_mailto == <<"m", "a", "i", "l", "t", "o">>
Str_javascript == <<"j", "a", "v", "a", "s", "c", "r", "i", "p", "t">>
Str_null == <<"n", "u", "l", "l">>
Colon == <<":">>
Slashes == <<"/", "/">>

\* -------------------------------------------------------------- windows
Platforms == {"darwin", "linux", "win32"}
ConfigKeys == {"frame", "minimiseToTray", "discordRPC"}
Configs == [ConfigKeys -> BOOLEAN]

\* Variant of the constructor options: the frame option left at its default.
NewWindow_FrameDefault(cfg) ==
    [alive |-> TRUE, visible |-> TRUE, focused |-> TRUE,
     minimized |-> FALSE, maximized |-> FALSE, frame |-> TRUE]

\* new BrowserWindow({... frame: initialConfig.frame ...}): shown and focused.
NewWindow(cfg) ==
    [alive |-> TRUE, visible |-> TRUE, focused |-> TRUE,
     minimized |-> FALSE, maximized |-> FALSE, frame |-> cfg["frame"]]

\* A destroyed window keeps no state.
Destroyed(w) ==
    [alive |-> FALSE, visible |-> FALSE, focused |-> FALSE,
     minimized |-> FALSE, maximized |-> FALSE, frame |-> FALSE]

\* BrowserWindow.getAllWindows().length
AllWindowsCount(ws, children) ==
    Cardinality({i \in 1..Len(ws) : ws[i].alive}) + children

\* mainWindow refers to a window the host has not destroyed.
Usable(ws, mw) == mw # 0 /\ ws[mw].alive

\* win.hide(): hidden windows are not focused.
Hide(ws, w) == [ws EXCEPT ![w].visible = FALSE, ![w].focused = FALSE]
\* win.show(): shows and gives focus.
Show(ws, w) == [ws EXCEPT ![w].visible = TRUE, ![w].focused = TRUE]
\* win.focus(): does nothing for a hidden window.
Focus(ws, w) == IF ws[w].visible THEN [ws EXCEPT ![w].focused = TRUE] ELSE ws
\* Variant of win.minimize(): minimizes, or restores a minimized window.
Minimize_Toggle(ws, w) ==
    [ws EXCEPT ![w].minimized = ~@, ![w].focused = FALSE]

\* win.minimize() / win.restore()
Minimize(ws, w) == [ws EXCEPT ![w].minimized = TRUE, ![w].focused = FALSE]
Restore(ws, w) == [ws EXCEPT ![w].minimized = FALSE]
\* win.maximize() / win.unmaximize()
Maximize(ws, w) == [ws EXCEPT ![w].maximized = TRUE]
Unmaximize(ws, w) == [ws EXCEPT ![w].maximized = FALSE]

\* The host emits "show" / "hide" on the window whose visibility changed.
Ev(type, w, src) == [type |-> type, win |-> w, src |-> src]
VisibilityEvents(before, after, w) ==
    IF before[w].visible = after[w].visible THEN <<>>
    ELSE <<Ev(IF after[w].visible THEN "show" ELSE "hide", w, "host")>>

\* ------------------------------------------------------------ tray menu
\* The toggle item of buildMenu's template.
ToggleLabel(visible) == IF visible THEN "Hide Revolt" ELSE "Show Revolt"

\* buildMenu() of the closure of the t-th createWindow call: replaces the
\* menu of that call's tray; isVisible() throws on a destroyed window.
BuildMenu(ts, t, ws, mw) ==
    IF Usable(ws, mw)
    THEN [ts EXCEPT ![t] = ToggleLabel(ws[mw].visible)]
    ELSE ts

\* ------------------------------------------------------ close interceptor
\* Variants of the listener's condition: the minimiseToTray test negated;
\* the shouldRelaunch test left out.
CloseIntercepted_Negated(quit, relaunch, cfg) ==
    ~quit /\ ~relaunch /\ ~cfg["minimiseToTray"]

CloseIntercepted_NoRelaunchTest(quit, relaunch, cfg) ==
    ~quit /\ cfg["minimiseToTray"]

\* The condition of the "close" listener.
CloseIntercepted(quit, relaunch, cfg) ==
    ~quit /\ ~relaunch /\ cfg["minimiseToTray"]

\* Events still deliverable after window w was destroyed, followed by
\* "window-all-closed" when no window is left.
AfterDestroy(q, ws, w, children) ==
    LET keep == SelectSeq(q, LAMBDA e : e.win # w)
    IN  IF AllWindowsCount(ws, children) = 0
        THEN Append(keep, Ev("window-all-closed", 0, "host"))
        ELSE keep

\* App.quit(): asks every window to close; terminates when all have closed.
\* Yields the windows afterwards and whether the process terminates.
AppQuit(ws, mw, quit, relaunch, cfg) ==
    IF \E i \in 1..Len(ws) : ws[i].alive /\ CloseIntercepted(quit, relaunch, cfg)
    THEN [windows |-> IF Usable(ws, mw) THEN Hide(ws, mw) ELSE ws,
          exits |-> FALSE]
    ELSE [windows |-> [i \in 1..Len(ws) |-> Destroyed(ws[i])],
          exits |-> TRUE]

Alive == pc # "exited"

\* The main thread handles events in arrival order: the events the host has
\* already emitted are delivered before any input that arrives later.
Idle == Alive /\ evq = <<>>

\* ------------------------------------------------------------------ Init
ConfigInit == [k \in ConfigKeys |-> FALSE]

\* No "set" message recorded, no autoLaunch call made, not registered.
IpcIdle ==
    /\ sent = <<>>
    /\ autoStart = FALSE
    /\ pendingAuto = <<>>
    /\ pushed = <<>>

NavIdle ==
    /\ buildURL = Str_https \o Colon \o Slashes \o <<"a">>
    /\ location = buildURL
    /\ lastNav = [url |-> <<>>, cancelled |-> FALSE]
    /\ requests = <<>>
    /\ immediates = <<>>
    /\ opened = <<>>
    /\ childWindows = 0
    /\ openAction = "none"

Init ==
    /\ platform \in Platforms
    /\ pc = "start"
    /\ windows = <<>>
    /\ mainWindow = 0
    /\ trays = <<>>
    /\ config \in Configs
    /\ shouldQuit = FALSE
    /\ shouldRelaunch = FALSE
    /\ evq = <<>>
    /\ rpcLog = <<>>
    /\ relaunches = <<>>
    /\ appCalls = <<>>
    /\ p2 = "absent"
    /\ p2Windows = 0
    /\ last = "load"
    /\ NavIdle
    /\ IpcIdle

\* ---------------------------------------------------------- createWindow
\* createWindow(): a new window from the current config, a new tray whose
\* menu is built at once, one more registration of every IPC handler.
CreateWindow ==
    /\ windows' = Append(windows, NewWindow(config))
    /\ mainWindow' = Len(windows) + 1
    /\ trays' = Append(trays, ToggleLabel(NewWindow(config).visible))

\* Every createWindow call registers each ipcMain.on handler once more.
IpcRegistrations == Len(windows)

\* App.whenReady(): the ready event; the callback awaits firstRun().
Ready ==
    /\ pc = "start"
    /\ pc' = "firstRun"
    /\ last' = "ready"
    /\ UNCHANGED <<platform, windows, mainWindow, trays, config, shouldQuit,
                   shouldRelaunch, evq, rpcLog, relaunches, appCalls, p2,
                   p2Windows>>
    /\ UNCHANGED navVars
    /\ UNCHANGED ipcVars

\* firstRun() resolved: createWindow(), then the activate handler is registered.
FirstRunResolved ==
    /\ pc = "firstRun"
    /\ CreateWindow
    /\ pc' = "running"
    /\ last' = "firstRunResolved"
    /\ UNCHANGED <<platform, config, shouldQuit, shouldRelaunch, evq, rpcLog,
                   relaunches, appCalls, p2, p2Windows>>
    /\ UNCHANGED navVars
    /\ UNCHANGED ipcVars

\* firstRun() rejected: the rest of the callback never runs.
FirstRunRejected ==
    /\ pc = "firstRun"
    /\ pc' = "failed"
    /\ last' = "firstRunRejected"
    /\ UNCHANGED <<platform, windows, mainWindow, trays, config, shouldQuit,
                   shouldRelaunch, evq, rpcLog, relaunches, appCalls, p2,
                   p2Windows>>
    /\ UNCHANGED navVars
    /\ UNCHANGED ipcVars

\* Variant of the registration: the activate handler registered before
\* firstRun() is awaited, so it is there after a rejection too.
Activate_RegisteredEarly ==
    /\ Idle
    /\ pc \in {"running", "failed"}
    /\ platform = "darwin"
    /\ IF AllWindowsCount(windows, childWindows) = 0
       THEN /\ Len(windows) < MaxCreates
            /\ CreateWindow
       ELSE UNCHANGED <<windows, mainWindow, trays>>
    /\ last' = "activate"
    /\ UNCHANGED <<platform, pc, config, shouldQuit, shouldRelaunch, evq,
                   rpcLog, relaunches, appCalls, p2, p2Windows>>
    /\ UNCHANGED navVars
    /\ UNCHANGED ipcVars

\* App.on("activate") (macOS): recreate a window when there is none.
Activate ==
    /\ Idle
    /\ pc = "running"
    /\ platform = "darwin"
    /\ IF AllWindowsCount(windows, childWindows) = 0
       THEN /\ Len(windows) < MaxCreates
            /\ CreateWindow
       ELSE UNCHANGED <<windows, mainWindow, trays>>
    /\ last' = "activate"
    /\ UNCHANGED <<platform, pc, config, shouldQuit, shouldRelaunch, evq,
                   rpcLog, relaunches, appCalls, p2, p2Windows>>
    /\ UNCHANGED navVars
    /\ UNCHANGED ipcVars

\* --------------------------------------------------------- window events
\* The state the handlers of the module read and write.
Controller ==
    [windows |-> windows, mainWindow |-> mainWindow, trays |-> trays,
     evq |-> evq, shouldQuit |-> shouldQuit,
     shouldRelaunch |-> shouldRelaunch, config |-> config,
     rpcLog |-> rpcLog, pendingAuto |-> pendingAuto,
     autoStart |-> autoStart, pushed |-> pushed,
     childWindows |-> childWindows]

\* The "show" / "hide" listener on the event at the head of the queue.
ShowHideHandled(s) ==
    [s EXCEPT !.trays = BuildMenu(@, Head(s.evq).win, s.windows,
                                  s.mainWindow),
              !.evq = Tail(@)]

\* mainWindow.on("show" / "hide", () => buildMenu()) of the window that
\* emitted the event.
OnShowHide ==
    /\ Alive
    /\ evq # <<>>
    /\ Head(evq).type \in {"show", "hide"}
    /\ trays' = ShowHideHandled(Controller).trays
    /\ evq' = ShowHideHandled(Controller).evq
    /\ last' = "visibilityEvent"
    /\ UNCHANGED <<platform, pc, windows, mainWindow, config, shouldQuit,
                   shouldRelaunch, rpcLog, relaunches, appCalls, p2,
                   p2Windows>>
    /\ UNCHANGED navVars
    /\ UNCHANGED ipcVars

\* The "close" listener on the event at the head of the queue: either
\* preventDefault() and mainWindow.hide(), or the host goes on to destroy
\* the window that was asked to close.
CloseHandled(s) ==
    LET w == Head(s.evq).win
        hidden == Hide(s.windows, s.mainWindow)
        gone == [s.windows EXCEPT ![w] = Destroyed(s.windows[w])]
    IN  IF CloseIntercepted(s.shouldQuit, s.shouldRelaunch, s.config)
        THEN [s EXCEPT !.windows = hidden,
                       !.evq = Tail(@) \o VisibilityEvents(s.windows, hidden,
                                                          s.mainWindow)]
        ELSE [s EXCEPT !.windows = gone,
                       !.evq = AfterDestroy(Tail(@), gone, w, s.childWindows)]

\* mainWindow.on("close")
OnClose ==
    /\ Alive
    /\ evq # <<>>
    /\ Head(evq).type = "close"
    /\ windows' = CloseHandled(Controller).windows
    /\ evq' = CloseHandled(Controller).evq
    /\ last' = "close"
    /\ UNCHANGED <<platform, pc, mainWindow, trays, config, shouldQuit,
                   shouldRelaunch, rpcLog, relaunches, appCalls, p2,
                   p2Windows>>
    /\ UNCHANGED navVars
    /\ UNCHANGED ipcVars

\* process.argv, App.isPackaged and process.env.APPIMAGE as the teardown
\* handler reads them ("" = APPIMAGE not set).
Argvs == {<<"revolt">>, <<"revolt", "--hidden">>}
AppImages == {"", "/opt/revolt.AppImage"}
ExecPath == "/usr/bin/revolt"

\* Variant of the options: argv passed on whole, argv[0] included.
RelaunchOptions_WholeArgv(argv, execPath, packaged, appimage) ==
    LET args == argv \o <<"--relaunch">>
    IN  IF packaged /\ appimage # ""
        THEN [execPath |-> appimage,
              args |-> <<"--appimage-extract-and-run">> \o args]
        ELSE [execPath |-> execPath, args |-> args]

\* The options object the teardown handler passes to App.relaunch.
RelaunchOptions(argv, execPath, packaged, appimage) ==
    LET args == SubSeq(argv, 2, Len(argv)) \o <<"--relaunch">>
    IN  IF packaged /\ appimage # ""
        THEN [execPath |-> appimage,
              args |-> <<"--appimage-extract-and-run">> \o args]
        ELSE [execPath |-> execPath, args |-> args]

\* App.on("window-all-closed")
OnWindowAllClosed ==
    /\ Alive
    /\ evq # <<>>
    /\ Head(evq).type = "window-all-closed"
    /\ IF shouldRelaunch
       THEN \E argv \in Argvs, packaged \in BOOLEAN, appimage \in AppImages :
                LET q == AppQuit(windows, mainWindow, shouldQuit,
                                 shouldRelaunch, config)
                IN  /\ relaunches' = Append(relaunches,
                            [argv |-> argv, packaged |-> packaged,
                             appimage |-> appimage,
                             options |-> RelaunchOptions(argv, ExecPath,
                                                         packaged, appimage)])
                    /\ appCalls' = appCalls \o <<"relaunch", "quit">>
                    /\ windows' = q.windows
                    /\ pc' = IF q.exits THEN "exited" ELSE pc
       ELSE IF platform # "darwin"
       THEN LET q == AppQuit(windows, mainWindow, shouldQuit, shouldRelaunch,
                             config)
            IN  /\ appCalls' = appCalls \o <<"quit">>
                /\ windows' = q.windows
                /\ pc' = IF q.exits THEN "exited" ELSE pc
                /\ UNCHANGED relaunches
       ELSE UNCHANGED <<relaunches, appCalls, windows, pc>>
    /\ evq' = Tail(evq)
    /\ last' = "windowAllClosed"
    /\ UNCHANGED <<platform, mainWindow, trays, config, shouldQuit,
                   shouldRelaunch, rpcLog, p2, p2Windows>>
    /\ UNCHANGED navVars
    /\ UNCHANGED ipcVars

\* The user presses the close button of the window.
UserClose ==
    /\ Idle
    /\ Usable(windows, mainWindow)
    /\ windows[mainWindow].visible
    /\ Len(evq) < MaxEvents
    /\ evq' = Append(evq, Ev("close", mainWindow, "user"))
    /\ last' = "userClose"
    /\ UNCHANGED <<platform, pc, windows, mainWindow, trays, config,
                   shouldQuit, shouldRelaunch, rpcLog, relaunches, appCalls,
                   p2, p2Windows>>
    /\ UNCHANGED navVars
    /\ UNCHANGED ipcVars

\* The window loses / regains the input focus by the user's doing.
OsBlur ==
    /\ Idle
    /\ Usable(windows, mainWindow)
    /\ windows[mainWindow].focused
    /\ windows' = [windows EXCEPT ![mainWindow].focused = FALSE]
    /\ last' = "blur"
    /\ UNCHANGED <<platform, pc, mainWindow, trays, config, shouldQuit,
                   shouldRelaunch, evq, rpcLog, relaunches, appCalls, p2,
                   p2Windows>>
    /\ UNCHANGED navVars
    /\ UNCHANGED ipcVars

OsFocus ==
    /\ Idle
    /\ Usable(windows, mainWindow)
    /\ windows[mainWindow].visible
    /\ ~windows[mainWindow].focused
    /\ windows' = [windows EXCEPT ![mainWindow].focused = TRUE,
                                  ![mainWindow].minimized = FALSE]
    /\ last' = "focus"
    /\ UNCHANGED <<platform, pc, mainWindow, trays, config, shouldQuit,
                   shouldRelaunch, evq, rpcLog, relaunches, appCalls, p2,
                   p2Windows>>
    /\ UNCHANGED navVars
    /\ UNCHANGED ipcVars

\* ------------------------------------------------------------------ tray
\* Variant of the click handler: a plain show / hide toggle.
TrayClickWindows_Toggle(ws, mw) ==
    IF ~Usable(ws, mw) THEN ws
    ELSE IF ws[mw].visible THEN Hide(ws, mw) ELSE Show(ws, mw)

\* tray.on("click"): the three-way branch; isVisible() throws on a
\* destroyed window and the handler ends there.
TrayClickWindows(ws, mw) ==
    IF ~Usable(ws, mw) THEN ws
    ELSE IF ws[mw].visible
         THEN IF ws[mw].focused THEN Hide(ws, mw) ELSE Focus(ws, mw)
         ELSE Show(ws, mw)

TrayClick(t) ==
    /\ Idle
    /\ t \in 1..Len(trays)
    /\ LET after == TrayClickWindows(windows, mainWindow)
       IN  /\ windows' = after
           /\ evq' = IF Usable(windows, mainWindow)
                     THEN evq \o VisibilityEvents(windows, after, mainWindow)
                     ELSE evq
    /\ Len(evq') <= MaxEvents
    /\ last' = "trayClick"
    /\ UNCHANGED <<platform, pc, mainWindow, trays, config, shouldQuit,
                   shouldRelaunch, rpcLog, relaunches, appCalls, p2,
                   p2Windows>>
    /\ UNCHANGED navVars
    /\ UNCHANGED ipcVars

\* click of the toggle item of the menu of tray t.
MenuToggleWindows(ws, mw) ==
    IF ~Usable(ws, mw) THEN ws
    ELSE IF ws[mw].visible THEN Hide(ws, mw) ELSE Show(ws, mw)

TrayMenuToggle(t) ==
    /\ Idle
    /\ t \in 1..Len(trays)
    /\ LET after == MenuToggleWindows(windows, mainWindow)
       IN  /\ windows' = after
           /\ evq' = IF Usable(windows, mainWindow)
                     THEN evq \o VisibilityEvents(windows, after, mainWindow)
                     ELSE evq
    /\ Len(evq') <= MaxEvents
    /\ last' = "menuToggle"
    /\ UNCHANGED <<platform, pc, mainWindow, trays, config, shouldQuit,
                   shouldRelaunch, rpcLog, relaunches, appCalls, p2,
                   p2Windows>>
    /\ UNCHANGED navVars
    /\ UNCHANGED ipcVars

\* Variant of the Quit item: app.quit() with the flag not yet set.
QuitFlagAtQuit_NotYetSet(quit) == quit

\* app.shouldQuit as the close listener reads it during the Quit item's
\* app.quit(): the assignment comes first.
QuitFlagAtQuit(quit) == TRUE

\* click of "Quit Revolt": app.shouldQuit = true; app.quit().
TrayMenuQuit(t) ==
    /\ Idle
    /\ t \in 1..Len(trays)
    /\ shouldQuit' = TRUE
    /\ LET q == AppQuit(windows, mainWindow, QuitFlagAtQuit(shouldQuit),
                        shouldRelaunch, config)
       IN  /\ windows' = q.windows
           /\ pc' = IF q.exits THEN "exited" ELSE pc
           /\ evq' = IF q.exits THEN <<>> ELSE evq
    /\ last' = "menuQuit"
    /\ UNCHANGED <<platform, mainWindow, trays, config, shouldRelaunch,
                   rpcLog, relaunches, appCalls, p2, p2Windows>>
    /\ UNCHANGED navVars
    /\ UNCHANGED ipcVars

\* ------------------------------------------------------------------- IPC
\* Partial<ConfigData> patches the content can send with "set".
Patches == UNION {[K -> BOOLEAN] : K \in SUBSET ConfigKeys}

\* Variant of the write: the patch stored in place of the config.
Merge_Overwrite(cfg, arg) ==
    [k \in ConfigKeys |-> IF k \in DOMAIN arg THEN arg[k] ELSE FALSE]

\* { ...store.get("config"), ...arg }
Merge(cfg, arg) ==
    [k \in ConfigKeys |-> IF k \in DOMAIN arg THEN arg[k] ELSE cfg[k]]

\* The presence-integration call of the "set" handler, if any.
RpcCalls(arg) ==
    IF "discordRPC" \in DOMAIN arg
    THEN IF arg["discordRPC"] THEN <<"connectRPC">> ELSE <<"dropRPC">>
    ELSE <<>>

\* What one run of an ipcMain.on handler does to the state it touches.
IpcBody(cmd, arg, s) ==
    LET mw == s.mainWindow
        ws == s.windows
    IN  CASE cmd = "set" ->
                [s EXCEPT !.rpcLog = @ \o RpcCalls(arg),
                          !.config = Merge(@, arg)]
          [] cmd = "reload" -> s
          [] cmd = "relaunch" ->
                [s EXCEPT !.shouldRelaunch = TRUE,
                          !.evq = IF ws[mw].alive
                                  THEN Append(@, Ev("close", mw, "relaunch"))
                                  ELSE @]
          [] cmd = "min" -> [s EXCEPT !.windows = Minimize(ws, mw)]
          [] cmd = "max" ->
                [s EXCEPT !.windows = IF ws[mw].maximized
                                      THEN Unmaximize(ws, mw)
                                      ELSE Maximize(ws, mw)]
          [] cmd = "close" ->
                [s EXCEPT !.evq = IF ws[mw].alive
                                  THEN Append(@, Ev("close", mw, "ipc"))
                                  ELSE @]
          [] cmd = "getAutoStart" ->
                [s EXCEPT !.pendingAuto = Append(@, "isEnabled")]
          [] cmd = "setAutoStart" ->
                [s EXCEPT !.pendingAuto =
                              Append(@, IF arg THEN "enable" ELSE "disable")]

\* ipcMain runs every handler registered for the channel, in order.
RECURSIVE RunHandlers(_, _, _, _)
RunHandlers(cmd, arg, n, s) ==
    IF n = 0 THEN s
    ELSE RunHandlers(cmd, arg, n - 1, IpcBody(cmd, arg, s))

\* The name under which a run of the handlers of channel cmd is recorded.
IpcName(cmd) ==
    CASE cmd = "set" -> "ipcSet"
      [] cmd = "reload" -> "ipcReload"
      [] cmd = "relaunch" -> "ipcRelaunch"
      [] cmd = "min" -> "ipcMin"
      [] cmd = "max" -> "ipcMax"
      [] cmd = "close" -> "ipcClose"
      [] cmd = "getAutoStart" -> "ipcGetAutoStart"
      [] cmd = "setAutoStart" -> "ipcSetAutoStart"

\* The state the handlers of the IPC channels read and write.
IpcState ==
    [windows |-> windows, mainWindow |-> mainWindow, evq |-> evq,
     shouldRelaunch |-> shouldRelaunch, config |-> config,
     rpcLog |-> rpcLog, pendingAuto |-> pendingAuto]

\* A message from the content of the live window on channel cmd; rpcCap
\* bounds the presence-integration calls recorded.
IpcStep(cmd, arg, rpcCap) ==
    /\ Idle
    /\ Usable(windows, mainWindow)
    /\ LET s == RunHandlers(cmd, arg, IpcRegistrations, IpcState)
       IN  /\ Len(s.evq) <= MaxEvents
           /\ Len(s.rpcLog) <= rpcCap
           /\ Len(s.pendingAuto) <= MaxPending
           /\ windows' = s.windows
           /\ evq' = s.evq
           /\ shouldRelaunch' = s.shouldRelaunch
           /\ config' = s.config
           /\ rpcLog' = s.rpcLog
           /\ pendingAuto' = s.pendingAuto
    /\ last' = IpcName(cmd)
    /\ UNCHANGED <<platform, pc, mainWindow, trays, shouldQuit, relaunches,
                   appCalls, p2, p2Windows>>
    /\ UNCHANGED navVars

Ipc(cmd, arg) ==
    /\ IpcStep(cmd, arg, MaxRpc)
    /\ UNCHANGED <<sent, autoStart, pushed>>

IpcSet == \E arg \in Patches : Ipc("set", arg)
IpcReload == Ipc("reload", <<>>)
IpcRelaunch == Ipc("relaunch", <<>>)
IpcMin == Ipc("min", <<>>)
IpcMax == Ipc("max", <<>>)
IpcClose == Ipc("close", <<>>)

\* ------------------------------------------------------- single instance
\* App.on("second-instance") in the process holding the lock.
SecondInstanceWindows(ws, mw) ==
    IF mw = 0 \/ ~ws[mw].alive THEN ws
    ELSE Focus(IF ws[mw].minimized THEN Restore(ws, mw) ELSE ws, mw)

\* App.requestSingleInstanceLock() in a process started now.
AcquiredLock == ~Alive

\* A second process runs the module: without the lock it quits at once
\* (it is absent again) and the host notifies the first process; with the
\* lock it goes on to wait for ready.
SecondLaunch ==
    /\ evq = <<>>
    /\ p2 = "absent"
    /\ IF AcquiredLock
       THEN /\ p2' = "start"
            /\ UNCHANGED windows
       ELSE /\ p2' = "absent"
            /\ windows' = SecondInstanceWindows(windows, mainWindow)
    /\ last' = "secondLaunch"
    /\ UNCHANGED <<platform, pc, mainWindow, trays, config, shouldQuit,
                   shouldRelaunch, evq, rpcLog, relaunches, appCalls,
                   p2Windows>>
    /\ UNCHANGED navVars
    /\ UNCHANGED ipcVars

\* The ready callback of that process, registered only with the lock.
SecondReady ==
    /\ p2 = "start"
    /\ p2' = "running"
    /\ p2Windows' = p2Windows + 1
    /\ last' = "secondReady"
    /\ UNCHANGED <<platform, pc, windows, mainWindow, trays, config,
                   shouldQuit, shouldRelaunch, evq, rpcLog, relaunches,
                   appCalls>>
    /\ UNCHANGED navVars
    /\ UNCHANGED ipcVars

\* --------------------------------------------------------- specification
Next ==
    \/ Ready
    \/ FirstRunResolved
    \/ FirstRunRejected
    \/ Activate
    \/ OnShowHide
    \/ OnClose
    \/ OnWindowAllClosed
    \/ UserClose
    \/ OsBlur
    \/ OsFocus
    \/ \E t \in 1..MaxCreates : TrayClick(t)
    \/ \E t \in 1..MaxCreates : TrayMenuToggle(t)
    \/ \E t \in 1..MaxCreates : TrayMenuQuit(t)
    \/ IpcSet
    \/ IpcReload
    \/ IpcRelaunch
    \/ IpcMin
    \/ IpcMax
    \/ IpcClose
    \/ SecondLaunch
    \/ SecondReady

Spec == Init /\ [][Next]_vars

\* The host delivers every event it has emitted: a listener that is due
\* runs on a later turn of the event loop, which nothing in the module blocks.
EventDelivery ==
    /\ WF_vars(OnShowHide)
    /\ WF_vars(OnClose)
    /\ WF_vars(OnWindowAllClosed)

SpecLive == Init /\ [][Next]_vars /\ EventDelivery

\* ============================================================ navigation
\* ------------------------------------------------------------ URL parsing
\* First position at or after from where character c occurs in s, else 0.
IndexOf(s, c, from) ==
    LET I == {i \in from..Len(s) : s[i] = c}
    IN  IF I = {} THEN 0 ELSE CHOOSE i \in I : \A j \in I : i <= j

\* String.prototype.startsWith
StartsWith(s, prefix) ==
    Len(s) >= Len(prefix) /\ SubSeq(s, 1, Len(prefix)) = prefix

\* Schemes whose URLs have a tuple origin, with their default ports.
SpecialSchemes == {Str_http, Str_https, Str_ftp, Str_ws, Str_wss}
DefaultPort(scheme) ==
    CASE scheme = Str_http -> <<"8", "0">>
      [] scheme = Str_https -> <<"4", "4", "3">>
      [] scheme = Str_ftp -> <<"2", "1">>
      [] scheme = Str_ws -> <<"8", "0">>
      [] scheme = Str_wss -> <<"4", "4", "3">>
      [] OTHER -> <<>>

\* new URL(s) for an absolute URL: scheme, host, port (dropped when it is
\* the scheme's default) and path.
ParseURL(s) ==
    LET colon == IndexOf(s, ":", 1)
        scheme == SubSeq(s, 1, colon - 1)
        rest == SubSeq(s, colon + 1, Len(s))
        hasAuthority == StartsWith(rest, Slashes)
        afterSlashes == SubSeq(rest, 3, Len(rest))
        slash == IndexOf(afterSlashes, "/", 1)
        authority == IF slash = 0 THEN afterSlashes
                     ELSE SubSeq(afterSlashes, 1, slash - 1)
        pcolon == IndexOf(authority, ":", 1)
        host == IF pcolon = 0 THEN authority
                ELSE SubSeq(authority, 1, pcolon - 1)
        port == IF pcolon = 0 THEN <<>>
                ELSE SubSeq(authority, pcolon + 1, Len(authority))
        path == IF slash = 0 THEN <<>>
                ELSE SubSeq(afterSlashes, slash, Len(afterSlashes))
    IN  IF hasAuthority
        THEN [scheme |-> scheme, host |-> host,
              port |-> IF port = DefaultPort(scheme) THEN <<>> ELSE port,
              path |-> IF path = <<>> /\ scheme \in SpecialSchemes
                       THEN <<"/">> ELSE path]
        ELSE [scheme |-> scheme, host |-> <<>>, port |-> <<>>, path |-> rest]

\* URL.prototype.origin, serialised: scheme://host[:port] for the special
\* schemes, the text "null" for any other.
Origin(u) ==
    IF u.scheme \in SpecialSchemes
    THEN u.scheme \o Colon \o Slashes \o u.host
         \o (IF u.port = <<>> THEN <<>> ELSE Colon \o u.port)
    ELSE Str_null

\* ------------------------------------------------------------- inputs
\* Values getBuildURL() can return: an origin, an origin with a port, a URL
\* with a trailing slash, a URL with a path, a URL with the default port.
BuildURLs ==
    { Str_https \o Colon \o Slashes \o <<"a">>,
      Str_http \o Colon \o Slashes \o <<"a", ":", "8">>,
      Str_https \o Colon \o Slashes \o <<"a", "/">>,
      Str_https \o Colon \o Slashes \o <<"a", "/", "x">>,
      Str_https \o Colon \o Slashes \o <<"a", ":", "4", "4", "3">> }

\* Targets of in-page navigations.
NavTargets ==
    { Str_https \o Colon \o Slashes \o <<"a", "/", "y">>,
      Str_https \o Colon \o Slashes \o <<"a", ":", "4", "4", "3", "/">>,
      Str_https \o Colon \o Slashes \o <<"b", "/">>,
      Str_http \o Colon \o Slashes \o <<"a", ":", "8", "/">>,
      Str_file \o Colon \o Slashes \o <<"/", "x">> }

\* URLs of new-window requests.
OpenURLs ==
    { Str_https \o Colon \o Slashes \o <<"a">>,
      Str_http \o Colon \o Slashes \o <<"a">>,
      Str_mailto \o Colon \o <<"m">>,
      Str_ftp \o Colon \o Slashes \o <<"a">>,
      Str_file \o Colon \o Slashes \o <<"/", "x">>,
      Str_javascript \o Colon \o <<"0">> }

\* ------------------------------------------------------- will-navigate
\* The condition under which the will-navigate listener calls
\* event.preventDefault().
NavigationCancelled(navigationUrl, build) ==
    Origin(ParseURL(navigationUrl)) # build

WillNavigate ==
    \E url \in NavTargets :
        /\ lastNav' = [url |-> url,
                       cancelled |-> NavigationCancelled(url, buildURL)]
        /\ location' = IF NavigationCancelled(url, buildURL)
                       THEN location ELSE url
        /\ UNCHANGED <<buildURL, requests, immediates, opened, childWindows,
                       openAction>>
        /\ UNCHANGED lifeVars
        /\ UNCHANGED ipcVars

\* ------------------------------------------------- setWindowOpenHandler
\* Variants of the scheme test: mailto left out; ftp let through.
OpensExternally_NoMailto(url) ==
    \/ StartsWith(url, Str_http \o Colon)
    \/ StartsWith(url, Str_https \o Colon)

OpensExternally_AlsoFtp(url) ==
    \/ StartsWith(url, Str_http \o Colon)
    \/ StartsWith(url, Str_https \o Colon)
    \/ StartsWith(url, Str_mailto \o Colon)
    \/ StartsWith(url, Str_ftp \o Colon)

\* The condition under which the handler schedules shell.openExternal.
OpensExternally(url) ==
    \/ StartsWith(url, Str_http \o Colon)
    \/ StartsWith(url, Str_https \o Colon)
    \/ StartsWith(url, Str_mailto \o Colon)

\* What the handler returns.
WindowOpenAction(url) == "deny"

\* The handler: setImmediate(...) for the three schemes, then the return;
\* the host creates a window only when the action is "allow".
WindowOpen ==
    \E url \in OpenURLs :
        /\ Len(requests) < MaxRequests
        /\ requests' = Append(requests, url)
        /\ immediates' = IF OpensExternally(url)
                         THEN Append(immediates, url) ELSE immediates
        /\ openAction' = WindowOpenAction(url)
        /\ childWindows' = IF WindowOpenAction(url) = "allow"
                           THEN childWindows + 1 ELSE childWindows
        /\ UNCHANGED <<buildURL, location, lastNav, opened>>
        /\ UNCHANGED lifeVars
        /\ UNCHANGED ipcVars

\* The callback given to setImmediate, on a later turn of the event loop.
RunImmediate ==
    /\ immediates # <<>>
    /\ opened' = Append(opened, Head(immediates))
    /\ immediates' = Tail(immediates)
    /\ UNCHANGED <<buildURL, location, lastNav, requests, childWindows,
                   openAction>>
    /\ UNCHANGED lifeVars
    /\ UNCHANGED ipcVars

\* A process with its window created, any build URL configured.
NavInit ==
    /\ platform = "linux"
    /\ pc = "running"
    /\ windows = <<NewWindow(ConfigInit)>>
    /\ mainWindow = 1
    /\ trays = <<ToggleLabel(TRUE)>>
    /\ config = ConfigInit
    /\ shouldQuit = FALSE
    /\ shouldRelaunch = FALSE
    /\ evq = <<>>
    /\ rpcLog = <<>>
    /\ relaunches = <<>>
    /\ appCalls = <<>>
    /\ p2 = "absent"
    /\ p2Windows = 0
    /\ last = "firstRunResolved"
    /\ buildURL \in BuildURLs
    /\ location = buildURL
    /\ lastNav = [url |-> <<>>, cancelled |-> FALSE]
    /\ requests = <<>>
    /\ immediates = <<>>
    /\ opened = <<>>
    /\ childWindows = 0
    /\ openAction = "none"
    /\ IpcIdle

NavNext ==
    \/ WillNavigate
    \/ WindowOpen
    \/ RunImmediate

SpecNav == NavInit /\ [][NavNext]_vars

\* ---------------------------------------------------- the "set" channel
\* A "set" message, its payload recorded.
IpcSetLogged ==
    \E arg \in Patches :
        /\ IpcStep("set", arg, MaxSetRpc)
        /\ sent' = <<arg>>
        /\ UNCHANGED <<autoStart, pushed>>

\* The lifecycle steps that create, destroy and re-create the window, and
\* the "set" channel.
SetNext ==
    \/ Ready
    \/ FirstRunResolved
    \/ UserClose
    \/ OnClose
    \/ OnWindowAllClosed
    \/ Activate
    \/ IpcSetLogged

SpecSet == Init /\ [][SetNext]_vars

\* ------------------------------------------------ the auto-start channels
IpcSetAutoStart == \E value \in BOOLEAN : Ipc("setAutoStart", value)

\* An autoLaunch call that has been made and has not acted yet.
AutoIssued == {"isEnabled", "enable", "disable"}

\* The call acts on the OS registration: what it becomes, and the call with
\* its outcome, still to be reported to the awaiting handler.
AutoRegistration(op, registered) ==
    CASE op = "enable" -> TRUE
      [] op = "disable" -> FALSE
      [] op = "isEnabled" -> registered

AutoActed(op, registered) ==
    CASE op = "enable" -> "enabled"
      [] op = "disable" -> "disabled"
      [] op = "isEnabled" -> IF registered THEN "is:true" ELSE "is:false"

\* The value the awaiting handler sends on "autoStart" once the call has
\* resolved: the literal of its branch, or the value isEnabled() gave.
AutoStartMessage(acted) ==
    CASE acted = "enabled" -> TRUE
      [] acted = "disabled" -> FALSE
      [] acted = "is:true" -> TRUE
      [] acted = "is:false" -> FALSE

\* mainWindow.webContents.send("autoStart", v): throws on a destroyed window.
SendAutoStart(p, v, ws, mw) == IF Usable(ws, mw) THEN <<v>> ELSE p

RemoveAt(q, i) == SubSeq(q, 1, i - 1) \o SubSeq(q, i + 1, Len(q))

\* The OS carries out the i-th awaited call; calls made one after the other
\* are not ordered among themselves.
AutoEffect(i) ==
    /\ Alive
    /\ i \in 1..Len(pendingAuto)
    /\ pendingAuto[i] \in AutoIssued
    /\ autoStart' = AutoRegistration(pendingAuto[i], autoStart)
    /\ pendingAuto' = [pendingAuto EXCEPT ![i] = AutoActed(@, autoStart)]
    /\ last' = "autoEffect"
    /\ UNCHANGED <<platform, pc, windows, mainWindow, trays, config,
                   shouldQuit, shouldRelaunch, evq, rpcLog, relaunches,
                   appCalls, p2, p2Windows>>
    /\ UNCHANGED navVars
    /\ UNCHANGED <<sent, pushed>>

\* The i-th awaited call resolves: the rest of the handler runs.
AutoResolved(i) ==
    /\ Idle
    /\ i \in 1..Len(pendingAuto)
    /\ pendingAuto[i] \notin AutoIssued
    /\ pushed' = SendAutoStart(pushed, AutoStartMessage(pendingAuto[i]),
                               windows, mainWindow)
    /\ pendingAuto' = RemoveAt(pendingAuto, i)
    /\ last' = "autoResolved"
    /\ UNCHANGED <<platform, pc, windows, mainWindow, trays, config,
                   shouldQuit, shouldRelaunch, evq, rpcLog, relaunches,
                   appCalls, p2, p2Windows>>
    /\ UNCHANGED navVars
    /\ UNCHANGED <<sent, autoStart>>

\* The i-th awaited call rejects without having acted: the rest of the
\* handler never runs.
AutoRejected(i) ==
    /\ Idle
    /\ i \in 1..Len(pendingAuto)
    /\ pendingAuto[i] \in AutoIssued
    /\ pendingAuto' = RemoveAt(pendingAuto, i)
    /\ last' = "autoRejected"
    /\ UNCHANGED <<platform, pc, windows, mainWindow, trays, config,
                   shouldQuit, shouldRelaunch, evq, rpcLog, relaunches,
                   appCalls, p2, p2Windows>>
    /\ UNCHANGED navVars
    /\ UNCHANGED <<sent, autoStart, pushed>>

\* The first awaited call acts, if it has not yet, and resolves.
FirstAutoSettled(s) ==
    LET op == Head(s.pendingAuto)
        issued == op \in AutoIssued
        acted == IF issued THEN AutoActed(op, s.autoStart) ELSE op
    IN  [s EXCEPT !.autoStart = IF issued THEN AutoRegistration(op, @)
                                ELSE @,
                  !.pushed = SendAutoStart(@, AutoStartMessage(acted),
                                           s.windows, s.mainWindow),
                  !.pendingAuto = Tail(@)]

\* The state once the window events pending have been handled and, the
\* process still having a window, the awaited calls have resolved in the
\* order they were made.
RECURSIVE Settled(_)
Settled(s) ==
    IF s.evq # <<>> /\ Head(s.evq).type \in {"show", "hide"}
    THEN Settled(ShowHideHandled(s))
    ELSE IF s.evq # <<>> /\ Head(s.evq).type = "close"
    THEN Settled(CloseHandled(s))
    ELSE IF s.evq = <<>> /\ s.pendingAuto # <<>>
    THEN Settled(FirstAutoSettled(s))
    ELSE s

\* A process about to start, the window closing for good when asked to,
\* the app registered or not.
AutoInit ==
    /\ platform \in Platforms
    /\ pc = "start"
    /\ windows = <<>>
    /\ mainWindow = 0
    /\ trays = <<>>
    /\ config = ConfigInit
    /\ shouldQuit = FALSE
    /\ shouldRelaunch = FALSE
    /\ evq = <<>>
    /\ rpcLog = <<>>
    /\ relaunches = <<>>
    /\ appCalls = <<>>
    /\ p2 = "absent"
    /\ p2Windows = 0
    /\ last = "load"
    /\ NavIdle
    /\ sent = <<>>
    /\ autoStart \in BOOLEAN
    /\ pendingAuto = <<>>
    /\ pushed = <<>>

AutoNext ==
    \/ Ready
    \/ FirstRunResolved
    \/ UserClose
    \/ OnClose
    \/ OnWindowAllClosed
    \/ Activate
    \/ IpcSetAutoStart
    \/ \E i \in 1..MaxPending : AutoEffect(i)
    \/ \E i \in 1..MaxPending : AutoResolved(i)
    \/ \E i \in 1..MaxPending : AutoRejected(i)

\* The set-auto-start commands, their awaited calls, and the lifecycle
\* steps that destroy and re-create the window meanwhile.
SpecAuto == AutoInit /\ [][AutoNext]_vars

\* ================================================================ claims
\* Schemes the window-open policy hands to the OS default handler.
ExternalSchemes == {Str_http, Str_https, Str_mailto}

\* ------------------------------------------------------------------- C1
\* C1: a close event handled while minimiseToTray is on and neither
\* shouldQuit nor shouldRelaunch is set does not destroy the window: the
\* window is still alive and is hidden, mainWindow still refers to it, no
\* window was created and the process keeps running; and showing a hidden
\* window (tray click or menu toggle) makes that same window visible.
C1_CloseBecomesHide ==
    [][ /\ (last' = "close" /\ config["minimiseToTray"]
                /\ ~shouldQuit /\ ~shouldRelaunch)
            => /\ windows'[Head(evq).win].alive
               /\ ~windows'[Head(evq).win].visible
               /\ mainWindow' = Head(evq).win
               /\ Len(windows') = Len(windows)
               /\ pc' = pc
               /\ pc' # "exited"
        /\ (last' \in {"trayClick", "menuToggle"}
                /\ Usable(windows, mainWindow)
                /\ ~windows[mainWindow].visible)
            => /\ mainWindow' = mainWindow
               /\ windows'[mainWindow].alive
               /\ windows'[mainWindow].visible
      ]_vars

C1_Witness ==
    /\ last = "close"
    /\ config["minimiseToTray"] /\ ~shouldQuit /\ ~shouldRelaunch
    /\ Usable(windows, mainWindow)
    /\ ~windows[mainWindow].visible
    /\ pc = "running"

\* ------------------------------------------------------------------- C2
\* C2: a close event handled while shouldRelaunch is set destroys the
\* window whatever minimiseToTray is (no hide is performed), and every close
\* the relaunch command requested is still pending only while shouldRelaunch
\* is already true.
C2_RelaunchCloseDestroys ==
    [][ /\ (last' = "close" /\ shouldRelaunch)
            => /\ ~windows'[Head(evq).win].alive
               /\ \A i \in 1..Len(evq') : evq'[i].type # "hide"
        /\ \A i \in 1..Len(evq') :
               evq'[i].src = "relaunch" => shouldRelaunch'
      ]_vars

C2_Witness ==
    /\ last = "close"
    /\ shouldRelaunch
    /\ config["minimiseToTray"]
    /\ mainWindow # 0
    /\ ~windows[mainWindow].alive

\* ------------------------------------------------------------------- C3
\* C3: when the all-windows-closed handler runs with shouldRelaunch set, on
\* any platform, it calls App.relaunch exactly once, with the arguments
\* argv[1:] + ["--relaunch"] (with "--appimage-extract-and-run" in front and
\* the AppImage as executable when packaged as an AppImage), then App.quit,
\* and the process terminates; no other step and no run with shouldRelaunch
\* unset requests a relaunch.
C3_ExpectedOptions(r) ==
    LET base == Tail(r.argv) \o <<"--relaunch">>
    IN  IF r.packaged /\ r.appimage # ""
        THEN [execPath |-> r.appimage,
              args |-> <<"--appimage-extract-and-run">> \o base]
        ELSE [execPath |-> ExecPath, args |-> base]

C3_TeardownRelaunches ==
    [][ IF last' = "windowAllClosed" /\ shouldRelaunch
        THEN /\ Len(relaunches') = 1
             /\ relaunches = <<>>
             /\ relaunches'[1].options = C3_ExpectedOptions(relaunches'[1])
             /\ appCalls' = appCalls \o <<"relaunch", "quit">>
             /\ pc' = "exited"
        ELSE relaunches' = relaunches
      ]_vars

C3_Witness ==
    /\ last = "windowAllClosed"
    /\ pc = "exited"
    /\ Len(relaunches) = 1
    /\ relaunches[1].packaged
    /\ relaunches[1].appimage # ""
    /\ Len(relaunches[1].argv) > 1
    /\ platform = "darwin"

\* ------------------------------------------------------------------- C4
\* C4: an in-page navigation is cancelled if and only if the origin of its
\* target differs from the origin of the build URL, for every build URL.
C4_CancelledIffOriginDiffers ==
    lastNav.url # <<>>
        => (lastNav.cancelled
               <=> Origin(ParseURL(lastNav.url)) # Origin(ParseURL(buildURL)))

\* ------------------------------------------------------------------- C5
\* C5: a new-window request for an http, https or mailto URL is denied, no
\* window is created, nothing is opened while the handler runs, and exactly
\* one deferred task for exactly that URL is queued; a deferred task opens
\* its URL outside any handler run; the URLs opened or still to be opened are
\* exactly the http, https and mailto URLs requested, once each and in order.
C5_ExternalOpenDeferred ==
    [][ /\ (requests' # requests
                /\ ParseURL(requests'[Len(requests')]).scheme
                       \in ExternalSchemes)
            => /\ openAction' = "deny"
               /\ childWindows' = childWindows
               /\ opened' = opened
               /\ immediates' = Append(immediates, requests'[Len(requests')])
        /\ (opened' # opened)
            => /\ requests' = requests
               /\ opened' = Append(opened, Head(immediates))
        /\ opened' \o immediates'
               = SelectSeq(requests',
                     LAMBDA u : ParseURL(u).scheme \in ExternalSchemes)
      ]_vars

C5_Witness ==
    /\ Len(opened) = 2
    /\ immediates = <<>>
    /\ requests = opened
    /\ ParseURL(opened[1]).scheme = Str_mailto
    /\ ParseURL(opened[2]).scheme = Str_https
    /\ childWindows = 0
    /\ openAction = "deny"

\* ------------------------------------------------------------------- C6
\* C6: a new-window request for a URL of any other scheme is denied and
\* changes nothing else: no window is created, no deferred task is queued,
\* nothing is opened and the content stays where it is; and no URL opened or
\* to be opened ever has such a scheme.
C6_OtherSchemesDropped ==
    [][ /\ (requests' # requests
                /\ ParseURL(requests'[Len(requests')]).scheme
                       \notin ExternalSchemes)
            => /\ openAction' = "deny"
               /\ childWindows' = childWindows
               /\ immediates' = immediates
               /\ opened' = opened
               /\ location' = location
        /\ \A i \in 1..Len(opened' \o immediates') :
               ParseURL((opened' \o immediates')[i]).scheme
                   \in ExternalSchemes
      ]_vars

C6_Witness ==
    /\ Len(requests) = 2
    /\ ParseURL(requests[1]).scheme = Str_ftp
    /\ ParseURL(requests[2]).scheme = Str_javascript
    /\ opened = <<>>
    /\ immediates = <<>>
    /\ childWindows = 0
    /\ openAction = "deny"

\* ------------------------------------------------------------------- C7
\* C7: once every show / hide event has been handled, the toggle item of
\* every tray menu is labelled "Hide" if and only if the window is visible.
C7_ToggleLabelFresh ==
    (Alive /\ evq = <<>> /\ Usable(windows, mainWindow))
        => \A t \in 1..Len(trays) :
               trays[t] = ToggleLabel(windows[mainWindow].visible)

\* ------------------------------------------------------------------- C8
\* C8: a tray click on a live window does exactly the three-way branch: a
\* hidden window becomes visible; a visible, focused window becomes hidden;
\* a visible, unfocused window gets the focus and stays visible. It changes
\* nothing else of that window, no other window, neither flag, nor the
\* config, and creates nothing.
C8_TrayClickThreeWay ==
    [][ (last' = "trayClick" /\ Usable(windows, mainWindow))
            => LET w == windows[mainWindow]
                   w2 == windows'[mainWindow]
               IN  /\ mainWindow' = mainWindow
                   /\ ~w.visible => w2.visible
                   /\ (w.visible /\ w.focused)
                          => (~w2.visible /\ ~w2.focused)
                   /\ (w.visible /\ ~w.focused)
                          => (w2.visible /\ w2.focused)
                   /\ w2.alive
                   /\ w2.minimized = w.minimized
                   /\ w2.maximized = w.maximized
                   /\ w2.frame = w.frame
                   /\ Len(windows') = Len(windows)
                   /\ \A i \in 1..Len(windows) :
                          i # mainWindow => windows'[i] = windows[i]
                   /\ UNCHANGED <<pc, trays, config, shouldQuit,
                                  shouldRelaunch>>
      ]_vars

C8_Witness ==
    /\ last = "trayClick"
    /\ evq = <<>>
    /\ Usable(windows, mainWindow)
    /\ windows[mainWindow].visible
    /\ windows[mainWindow].focused

\* ------------------------------------------------------------------- C9
\* C9: when a second process is launched while the first holds the lock and
\* has a window, the second process terminates with no window, the first
\* creates no window, and the first's window ends up visible, not minimized
\* and focused, whatever state it was in.
C9_SecondLaunchFocusesFirst ==
    [][ (last' = "secondLaunch" /\ Alive /\ Usable(windows, mainWindow))
            => /\ p2' = "absent"
               /\ p2Windows' = 0
               /\ Len(windows') = Len(windows)
               /\ Len(trays') = Len(trays)
               /\ windows'[mainWindow].visible
               /\ ~windows'[mainWindow].minimized
               /\ windows'[mainWindow].focused
      ]_vars

\* ------------------------------------------------------------------ C10
\* C10: in every reachable state the process has at most one live window
\* and at most one tray.
C10_OneWindowOneTray ==
    /\ AllWindowsCount(windows, childWindows) <= 1
    /\ Len(trays) <= 1

\* ------------------------------------------------------------------ C11
\* C11: a "set" command whose patch has discordRPC = true makes exactly one
\* connect call, one whose patch has discordRPC = false exactly one
\* disconnect call, one whose patch has no discordRPC key makes neither;
\* the persisted discordRPC is then the patch's value. So set(true) followed
\* by set(false) connects once, then disconnects once, and ends at false.
C11_OneRpcCallPerSet ==
    [][ last' = "ipcSet"
            => LET arg == sent'[1]
               IN  IF "discordRPC" \in DOMAIN arg
                   THEN /\ rpcLog' = Append(rpcLog,
                                            IF arg["discordRPC"]
                                            THEN "connectRPC" ELSE "dropRPC")
                        /\ config'["discordRPC"] = arg["discordRPC"]
                   ELSE /\ rpcLog' = rpcLog
                        /\ config'["discordRPC"] = config["discordRPC"]
      ]_vars

\* ------------------------------------------------------------------ C12
\* C12: "set" is a partial merge: after the command every key of the patch
\* has the patch's value in the persisted config and every other key has the
\* value it had before.
C12_SetIsPartialMerge ==
    [][ last' = "ipcSet"
            => LET arg == sent'[1]
               IN  \A k \in ConfigKeys :
                       config'[k] = IF k \in DOMAIN arg THEN arg[k]
                                    ELSE config[k]
      ]_vars

C12_Witness ==
    /\ last = "ipcSet"
    /\ DOMAIN sent[1] = {"frame"}
    /\ config["frame"] = sent[1]["frame"]
    /\ config["minimiseToTray"]
    /\ config["discordRPC"]

\* ------------------------------------------------------------------ C13
\* C13: the Quit item of the tray menu sets shouldQuit before it asks the
\* application to terminate, so the close is never turned into a hide: even
\* with minimiseToTray on, every window is destroyed and the process
\* terminates.
C13_QuitBypassesInterceptor ==
    [][ last' = "menuQuit"
            => /\ shouldQuit'
               /\ pc' = "exited"
               /\ Len(windows') = Len(windows)
               /\ \A i \in 1..Len(windows') : ~windows'[i].alive
      ]_vars

C13_Witness ==
    /\ last = "menuQuit"
    /\ platform = "linux"
    /\ config["minimiseToTray"]
    /\ ~shouldRelaunch
    /\ pc = "exited"
    /\ ~windows[mainWindow].alive

\* ------------------------------------------------------------------ C14
\* One message on channel cmd, and what has settled after it.
C14_Once(cmd, arg, s) ==
    Settled(RunHandlers(cmd, arg, Len(s.windows), s))

\* Two messages on channel cmd in a row, the second arriving before or
\* after the events of the first were handled, leave what one leaves.
C14_Idempotent(cmd, arg, s) ==
    LET once == C14_Once(cmd, arg, s)
        n == Len(s.windows)
    IN  /\ Settled(RunHandlers(cmd, arg, n, RunHandlers(cmd, arg, n, s)))
               = once
        /\ (Usable(once.windows, once.mainWindow) /\ once.evq = <<>>)
               => C14_Once(cmd, arg, once) = once

\* The commands of the claim as first stated.
C14_Commands ==
    {[cmd |-> c, arg |-> FALSE] :
         c \in {"reload", "relaunch", "min", "max", "close", "getAutoStart"}}
    \cup {[cmd |-> "setAutoStart", arg |-> v] : v \in BOOLEAN}

\* The state a message can arrive in, the app registered or not.
C14_States ==
    IF Idle /\ Usable(windows, mainWindow)
    THEN {[Controller EXCEPT !.autoStart = a] : a \in BOOLEAN}
    ELSE {}

\* C14 as stated: every IPC command other than set (reload, relaunch,
\* minimize, maximize-toggle, close, query-auto-start, set-auto-start(v)),
\* issued twice in a row, leaves the state that issuing it once leaves.
C14_AllButSetIdempotent ==
    \A s \in C14_States : \A c \in C14_Commands :
        C14_Idempotent(c.cmd, c.arg, s)

\* C14: reload, relaunch, minimize, close, query-auto-start and
\* set-auto-start(v), issued twice in a row, leave the state that issuing
\* them once leaves; maximize-toggle is not among them: every run of its
\* handler changes the maximized state of the window.
C14_AllButSetAndMaxIdempotent ==
    \A s \in C14_States :
        /\ \A c \in C14_Commands :
               c.cmd # "max" => C14_Idempotent(c.cmd, c.arg, s)
        /\ IpcBody("max", FALSE, s).windows[s.mainWindow].maximized
               # s.windows[s.mainWindow].maximized

C14_Witness ==
    /\ last = "ipcMin"
    /\ Idle
    /\ Usable(windows, mainWindow)
    /\ windows[mainWindow].minimized
    /\ windows[mainWindow].maximized

\* ------------------------------------------------------------------ C15
\* C15: once firstRun() has rejected, no window and no tray is ever
\* created, the activate handler never runs (it was not registered), and
\* the start-up is not tried again: the process stays where the rejection
\* left it.
C15_FailedFirstRunIsFinal ==
    /\ [](pc = "failed"
             => windows = <<>> /\ trays = <<>> /\ mainWindow = 0)
    /\ [][ pc = "failed" => (pc' = "failed" /\ last' # "activate") ]_vars

C15_Witness ==
    /\ pc = "failed"
    /\ platform = "darwin"
    /\ last = "secondLaunch"
    /\ windows = <<>>

\* ------------------------------------------------------------------ C16
\* C16: a "set" command leaves the live window (existence, visibility,
\* focus, frame, content), the tray menus, both flags and the pending host
\* events as they were; the frame of a live window never changes, and a
\* window gets the persisted frame value at its creation.
C16_SetTouchesOnlyConfig ==
    /\ [][ last' = "ipcSet"
              => UNCHANGED <<windows, mainWindow, trays, shouldQuit,
                             shouldRelaunch, evq, pc, location>> ]_vars
    /\ [][ \A i \in 1..Len(windows) :
               windows'[i].alive => windows'[i].frame = windows[i].frame
        ]_vars
    /\ [][ Len(windows') > Len(windows)
              => /\ Len(windows') = Len(windows) + 1
                 /\ windows'[Len(windows')].frame = config["frame"]
                 /\ config' = config ]_vars

C16_Witness ==
    /\ last = "ipcSet"
    /\ Usable(windows, mainWindow)
    /\ windows[mainWindow].frame # config["frame"]

\* ------------------------------------------------------------------ C17
\* C17: every relaunch command is eventually followed by the teardown: the
\* window destroyed, the all-windows-closed handler run, a replacement
\* process requested with the arguments after argv[0] preserved, and the
\* current process terminated, whether the window was visible or hidden
\* and whatever minimiseToTray is.
C17_Teardown ==
    /\ pc = "exited"
    /\ last = "windowAllClosed"
    /\ \A i \in 1..Len(windows) : ~windows[i].alive
    /\ Len(relaunches) = 1
    /\ appCalls = <<"relaunch", "quit">>
    /\ LET r == relaunches[1]
           n == Len(r.options.args)
       IN  /\ n >= Len(r.argv)
           /\ SubSeq(r.options.args, n - Len(r.argv) + 1, n)
                  = SubSeq(r.argv, 2, Len(r.argv)) \o <<"--relaunch">>

C17_RelaunchLeadsToTeardown == (last = "ipcRelaunch") ~> C17_Teardown

C17_Witness ==
    /\ C17_Teardown
    /\ config["minimiseToTray"]
    /\ Len(windows) = 1

\* ------------------------------------------------------------------ C18
\* C18: whenever no auto-start call is in flight, the last autoStart value
\* sent to the content, if any was sent, is the registration state the OS
\* has; and a value is sent only when an awaited call has resolved.
C18_PushedIsRegistration ==
    /\ []((pendingAuto = <<>> /\ pushed # <<>>) => pushed[1] = autoStart)
    /\ [][ pushed' # pushed => last' = "autoResolved" ]_vars

\* ------------------------------------------------------------------ C19
\* C19: no handler operates on a destroyed window: when a tray click, a
\* click of the toggle item, a second-instance notification or an IPC
\* command is handled and mainWindow has been assigned, the window it
\* refers to is alive.
C19_NoHandlerOnDestroyedWindow ==
    [][ (/\ last' \in {"trayClick", "menuToggle", "secondLaunch", "ipcSet",
                       "ipcReload", "ipcRelaunch", "ipcMin", "ipcMax",
                       "ipcClose"}
         /\ Alive
         /\ mainWindow # 0)
            => windows[mainWindow].alive
      ]_vars

\* ------------------------------------------------------------------ C20
\* C20: however many windows were created, each IPC channel has exactly
\* one handler registered once a window exists, and one message has one
\* effect: one "max" message changes the maximized state of the window.
C20_OneHandlerPerChannel ==
    /\ [](windows # <<>> => IpcRegistrations = 1)
    /\ [][ last' = "ipcMax"
              => windows'[mainWindow].maximized
                     # windows[mainWindow].maximized ]_vars

====
